---- MODULE Spec2Model ----
(***************************************************************************)
(* A model of the message-processing core of the sales agent:              *)
(*   app/services/ai_agent.py          AIAgent (prompts, generation,       *)
(*                                     response parser, fallbacks)         *)
(*   app/services/whatsapp_service.py  WhatsAppService (send, bulk send,   *)
(*                                     phone normalisation)                *)
(*   app/core/database.py, app/schemas/lead.py   the Lead record           *)
(* Texts are TLA+ strings; Len, SubSeq and \o act on them character by     *)
(* character, as Python's str operations do.                               *)
(***************************************************************************)
EXTENDS Integers, Sequences, FiniteSets, TLC

VARIABLES
    \* ---- AIAgent: the arguments of one invocation and what it returned
    lead_data,             \* Dict: the lead's fields, read by key
    campaign_data,         \* Dict
    client_data,           \* Dict
    conversation_history,  \* List[Dict]: turns, oldest first
    message,               \* the inbound message text
    agent_pc,              \* "idle", the operation that has returned, or "raised"
    agent_ret,             \* the value the operation returned
    prompt,                \* the user prompt the operation built
    backend,               \* what the generation backend did on the call
    backend_calls,         \* calls made to openai.ChatCompletion.create
    parser_runs,           \* calls made to _parse_processing_response
    agent_trace,           \* the steps the invocation went through, in order
    \* ---- the Response Parser on its own
    response_lines,        \* the lines the raw generation output is made of
    parsed,                \* <<action, message>>, or NotRun
    \* ---- WhatsAppService.send_bulk_messages
    messages,              \* List[Dict]: the input of send_bulk_messages
    bulk_i,                \* number of loop iterations completed
    results,               \* the list send_bulk_messages builds
    bulk_pc,               \* "loop" or "returned"
    provider_log,          \* the sends the provider was asked for, in order
    \* ---- WhatsAppService: one send, and the phone normalisation on its own
    send_to_number,        \* to_number, as the caller gave it
    send_pc,               \* "idle", or the send operation that has ended
    send_ret,              \* what the operation returned or raised
    send_request,          \* what client.messages.create was asked, or NoRequest
    formatted,             \* successive outputs of _format_phone_number
    \* ---- the Lead record and the events that move its status
    lead_status,           \* Lead.status
    lead_prev,             \* Lead.status before the last event
    lead_event,            \* the last event handled for the lead
    decision,              \* the DecisionResult not yet applied, or NoDecision
    turns                  \* the lead's ConversationTurns (directions), oldest first

agentVars == <<lead_data, campaign_data, client_data, conversation_history,
               message, agent_pc, agent_ret, prompt, backend, backend_calls,
               parser_runs, agent_trace>>
parserVars == <<response_lines, parsed>>
bulkVars == <<messages, bulk_i, results, bulk_pc, provider_log>>
sendVars == <<send_to_number, send_pc, send_ret, send_request, formatted>>
leadVars == <<lead_status, lead_prev, lead_event, decision, turns>>
vars == <<agentVars, parserVars, bulkVars, sendVars, leadVars>>

(***************************************************************************)
(* Bounds of the model.                                                    *)
(***************************************************************************)
MaxLines == 3       \* lines in a raw generation output given to the parser
MaxHistory == 6     \* turns in a conversation history
MaxBulk == 3        \* messages in one send_bulk_messages call
MaxTurns == 4       \* ConversationTurns recorded for the lead
MaxFormat == 2      \* successive applications of _format_phone_number

(***************************************************************************)
(* Python's str operations.                                                *)
(***************************************************************************)
\* str.isspace() on the characters a TLA+ string can hold
Whitespace == {" ", "\t", "\n", "\r", "\f"}

\* str.startswith(prefix)
StartsWith(s, prefix) ==
    /\ Len(s) >= Len(prefix)
    /\ SubSeq(s, 1, Len(prefix)) = prefix

RECURSIVE LStrip(_)
\* str.lstrip()
LStrip(s) ==
    IF Len(s) > 0 /\ SubSeq(s, 1, 1) \in Whitespace
    THEN LStrip(SubSeq(s, 2, Len(s)))
    ELSE s

RECURSIVE RStrip(_)
\* str.rstrip()
RStrip(s) ==
    IF Len(s) > 0 /\ SubSeq(s, Len(s), Len(s)) \in Whitespace
    THEN RStrip(SubSeq(s, 1, Len(s) - 1))
    ELSE s

\* str.strip()
Strip(s) == RStrip(LStrip(s))

RECURSIVE Replace(_, _, _)
\* str.replace(old, new), old non-empty: every non-overlapping occurrence,
\* scanning from the left
Replace(s, old, new) ==
    IF Len(s) < Len(old) THEN s
    ELSE IF SubSeq(s, 1, Len(old)) = old
         THEN new \o Replace(SubSeq(s, Len(old) + 1, Len(s)), old, new)
         ELSE SubSeq(s, 1, 1) \o Replace(SubSeq(s, 2, Len(s)), old, new)

RECURSIVE SplitFrom(_, _, _)
SplitFrom(s, i, start) ==
    IF i > Len(s) THEN <<SubSeq(s, start, Len(s))>>
    ELSE IF SubSeq(s, i, i) = "\n"
         THEN <<SubSeq(s, start, i - 1)>> \o SplitFrom(s, i + 1, i + 1)
         ELSE SplitFrom(s, i + 1, start)

\* str.split('\n'): the empty string gives one empty line
SplitLines(s) == SplitFrom(s, 1, 1)

RECURSIVE Join(_, _)
\* sep.join(parts)
Join(parts, sep) ==
    IF Len(parts) = 0 THEN ""
    ELSE IF Len(parts) = 1 THEN parts[1]
         ELSE parts[1] \o sep \o Join(Tail(parts), sep)

\* dict.get(key, default)
Get(d, key, default) == IF key \in DOMAIN d THEN d[key] ELSE default

\* the dict with no keys
EmptyDict == [k \in {} |-> ""]

(***************************************************************************)
(* AIAgent._parse_processing_response                                      *)
(***************************************************************************)
DefaultAction == "respond"
DefaultMessage == "Thank you for your message. I'll be happy to help you."

\* the value an ACTION: line sets
ActionValue(line) == Strip(Replace(line, "ACTION:", ""))

\* the value a MESSAGE: line sets
MessageValue(line) == Strip(Replace(line, "MESSAGE:", ""))

\* ParseLine, had the loop kept the first value of each kind ("break" on a
\* match) instead of the last
ParseLineFirstWins(acc, line) ==
    IF StartsWith(line, "ACTION:") /\ acc[1] = DefaultAction
    THEN <<ActionValue(line), acc[2]>>
    ELSE IF StartsWith(line, "MESSAGE:") /\ acc[2] = DefaultMessage
    THEN <<acc[1], MessageValue(line)>>
    ELSE acc

\* ParseLine, had each line been trimmed before the prefix test
\* (line.strip().startswith)
ParseLineStripped(acc, line) ==
    IF StartsWith(Strip(line), "ACTION:") THEN <<ActionValue(line), acc[2]>>
    ELSE IF StartsWith(Strip(line), "MESSAGE:") THEN <<acc[1], MessageValue(line)>>
    ELSE acc

\* one iteration of the loop over the lines; acc = <<action, message>>
ParseLine(acc, line) ==
    IF StartsWith(line, "ACTION:") THEN <<ActionValue(line), acc[2]>>
    ELSE IF StartsWith(line, "MESSAGE:") THEN <<acc[1], MessageValue(line)>>
    ELSE acc

RECURSIVE ParseLines(_, _)
ParseLines(acc, lines) ==
    IF Len(lines) = 0 THEN acc
    ELSE ParseLines(ParseLine(acc, Head(lines)), Tail(lines))

\* the lines the loop runs over
ResponseLinesOf(response) == SplitLines(Strip(response))

_parse_processing_response(response) ==
    ParseLines(<<DefaultAction, DefaultMessage>>, ResponseLinesOf(response))

NotRun == <<>>

(***************************************************************************)
(* The Response Parser on its own: a raw generation output of up to        *)
(* MaxLines lines, each taken from LineOptions, is parsed once.            *)
(***************************************************************************)
LineOptions ==
    { "", " ", "note",
      "ACTION: convert", "ACTION:lost ", "  ACTION: schedule_call",
      "action: convert", "ACTION: see ACTION: x",
      "MESSAGE: Great, let's proceed!", "\tMESSAGE: hello",
      "MESSAGE: type MESSAGE: stop", "MESSAGE: ACTION: none" }

LineSeqs == UNION { [1..n -> LineOptions] : n \in 0..MaxLines }

\* the raw text whose lines are response_lines
raw_response == Join(response_lines, "\n")

ParserIdle ==
    /\ response_lines = <<>>
    /\ parsed = NotRun

ParserInit ==
    /\ response_lines \in LineSeqs
    /\ parsed = NotRun

ParseResponse ==
    /\ parsed = NotRun
    /\ parsed' = _parse_processing_response(raw_response)
    /\ UNCHANGED response_lines

(***************************************************************************)
(* AIAgent: prompt builders.  A Dict is a function from its keys; a field  *)
(* that is not a str (lead_data, message_templates, services) stands here  *)
(* as the text str() renders for it.                                       *)
(***************************************************************************)
HistoryWindow == 5

\* LastN, had the slice been lst[:n]
FirstN(lst, n) ==
    IF Len(lst) <= n THEN lst ELSE SubSeq(lst, 1, n)

\* lst[-n:]
LastN(lst, n) ==
    IF Len(lst) <= n THEN lst ELSE SubSeq(lst, Len(lst) - n + 1, Len(lst))

\* f"{msg['direction']}: {msg['content']}"
RenderTurn(msg) == msg["direction"] \o ": " \o msg["content"]

\* "\n".join([... for msg in conversation_history[-5:]])
history_text(history) ==
    LET kept == LastN(history, HistoryWindow)
    IN  Join([i \in 1..Len(kept) |-> RenderTurn(kept[i])], "\n")

_build_initial_prompt(lead, campaign, client) ==
    "\n"
    \o "        Generate a personalized initial WhatsApp message for a sales lead.\n"
    \o "        \n"
    \o "        Lead Information:\n"
    \o "        - Name: " \o Get(lead, "name", "Unknown") \o "\n"
    \o "        - Phone: " \o Get(lead, "phone", "Unknown") \o "\n"
    \o "        - Email: " \o Get(lead, "email", "Unknown") \o "\n"
    \o "        - Additional Data: " \o Get(lead, "lead_data", "{}") \o "\n"
    \o "        \n"
    \o "        Campaign Information:\n"
    \o "        - Campaign Name: " \o Get(campaign, "name", "Unknown") \o "\n"
    \o "        - Description: " \o Get(campaign, "description", "Unknown") \o "\n"
    \o "        - Message Templates: " \o Get(campaign, "message_templates", "{}") \o "\n"
    \o "        \n"
    \o "        Client Information:\n"
    \o "        - Company Name: " \o Get(client, "name", "Unknown") \o "\n"
    \o "        - Industry: " \o Get(Get(client, "settings", EmptyDict), "industry", "Unknown") \o "\n"
    \o "        - Services: " \o Get(Get(client, "settings", EmptyDict), "services", "[]") \o "\n"
    \o "        \n"
    \o "        Requirements:\n"
    \o "        1. Keep the message under 160 characters\n"
    \o "        2. Make it personal and engaging\n"
    \o "        3. Include a clear call-to-action\n"
    \o "        4. Be professional but friendly\n"
    \o "        5. Mention the specific service/product they showed interest in\n"
    \o "        \n"
    \o "        Generate only the message content, no additional formatting.\n"
    \o "        "

_build_follow_up_prompt(lead, campaign, client, history) ==
    "\n"
    \o "        Generate a follow-up WhatsApp message based on the conversation history.\n"
    \o "        \n"
    \o "        Lead Information:\n"
    \o "        - Name: " \o Get(lead, "name", "Unknown") \o "\n"
    \o "        - Current Status: " \o Get(lead, "status", "Unknown") \o "\n"
    \o "        \n"
    \o "        Conversation History:\n"
    \o "        " \o history_text(history) \o "\n"
    \o "        \n"
    \o "        Campaign Information:\n"
    \o "        - Campaign: " \o Get(campaign, "name", "Unknown") \o "\n"
    \o "        - Templates: " \o Get(campaign, "message_templates", "{}") \o "\n"
    \o "        \n"
    \o "        Client Information:\n"
    \o "        - Company: " \o Get(client, "name", "Unknown") \o "\n"
    \o "        \n"
    \o "        Requirements:\n"
    \o "        1. Keep under 160 characters\n"
    \o "        2. Reference previous conversation\n"
    \o "        3. Provide value or new information\n"
    \o "        4. Include clear next steps\n"
    \o "        5. Be persistent but not pushy\n"
    \o "        \n"
    \o "        Generate only the message content.\n"
    \o "        "

_build_processing_prompt(msg, lead, campaign, client, history) ==
    "\n"
    \o "        Analyze this incoming message and determine the appropriate response.\n"
    \o "        \n"
    \o "        Incoming Message: \"" \o msg \o "\"\n"
    \o "        \n"
    \o "        Lead Information:\n"
    \o "        - Name: " \o Get(lead, "name", "Unknown") \o "\n"
    \o "        - Status: " \o Get(lead, "status", "Unknown") \o "\n"
    \o "        \n"
    \o "        Conversation History:\n"
    \o "        " \o history_text(history) \o "\n"
    \o "        \n"
    \o "        Client Information:\n"
    \o "        - Company: " \o Get(client, "name", "Unknown") \o "\n"
    \o "        - Services: " \o Get(Get(client, "settings", EmptyDict), "services", "[]") \o "\n"
    \o "        \n"
    \o "        Determine the appropriate action and response:\n"
    \o "        1. If they're interested in buying - respond with conversion message\n"
    \o "        2. If they have questions - answer professionally\n"
    \o "        3. If they want to speak to someone - schedule a call\n"
    \o "        4. If they're not interested - politely end conversation\n"
    \o "        5. If unclear - ask clarifying questions\n"
    \o "        \n"
    \o "        Respond in this format:\n"
    \o "        ACTION: [action_type]\n"
    \o "        MESSAGE: [response_message]\n"
    \o "        "

(***************************************************************************)
(* AIAgent: the generation call.  The backend either raises, or returns a  *)
(* response whose choices may be empty and whose first choice may carry no *)
(* text (content None).                                                    *)
(***************************************************************************)
Raises == [raised |-> TRUE, choices |-> <<>>]

ResponseOf(choices) == [raised |-> FALSE, choices |-> choices]

TextChoice(t) == [content_is_str |-> TRUE, content |-> t]

NullChoice == [content_is_str |-> FALSE, content |-> ""]

\* the try block leaves through "except Exception": create() raised,
\* choices[0] raised IndexError, or None.strip() raised AttributeError
GenerationFails(b) ==
    \/ b.raised
    \/ Len(b.choices) = 0
    \/ ~b.choices[1].content_is_str

\* response.choices[0].message.content.strip()
GeneratedText(b) == Strip(b.choices[1].content)

\* _get_fallback_message with the prompt builders' default for a missing name
_get_fallback_message_unknown(lead, client) ==
    LET name == Get(lead, "name", "Unknown")
        company == Get(client, "name", "Unknown")
    IN  "Hi " \o name \o "! Thanks for your interest in " \o company
        \o ". I'd love to tell you more about our services."
        \o " When would be a good time to chat?"

_get_fallback_message(lead, client) ==
    LET name == Get(lead, "name", "there")
        company == Get(client, "name", "our company")
    IN  "Hi " \o name \o "! Thanks for your interest in " \o company
        \o ". I'd love to tell you more about our services."
        \o " When would be a good time to chat?"

\* _get_fallback_follow_up, had it named the client as the initial fallback
\* does
_get_fallback_follow_up_company(lead, client) ==
    LET name == Get(lead, "name", "there")
        company == Get(client, "name", "our company")
    IN  "Hi " \o name \o "! Just following up on our previous conversation about "
        \o company \o ". Would you like to learn more about our services?"

_get_fallback_follow_up(lead, client) ==
    LET name == Get(lead, "name", "there")
    IN  "Hi " \o name \o "! Just following up on our previous conversation."
        \o " Would you like to learn more about our services?"

\* Python's None, as the value of a dict key
None == [py_none |-> TRUE]

\* client_data.get('settings', {}) returns None: the key is there and holds
\* None, so that the .get(...) made on it raises AttributeError
SettingsIsNone(client) == Get(client, "settings", EmptyDict) = None

\* the error that leaves an operation whose prompt could not be built
AttributeError(operation) ==
    [raised |-> TRUE, error |-> "AttributeError", raised_by |-> operation]

\* the operations whose prompt reads client_data.get('settings', {}).get(...)
ReadsSettings == {"generate_initial_message", "process_incoming_message"}

\* building the prompt of the operation raises
PromptRaises(operation, client) ==
    operation \in ReadsSettings /\ SettingsIsNone(client)

\* InvocationSteps, had a failed call been made a second time before the
\* fallback
InvocationStepsWithRetry(operation, client, b) ==
    IF PromptRaises(operation, client) THEN <<"build_prompt">>
    ELSE IF GenerationFails(b) THEN <<"build_prompt", "create", "create", "fallback">>
    ELSE IF operation = "process_incoming_message"
    THEN <<"build_prompt", "create", "parse", "return">>
    ELSE <<"build_prompt", "create", "return">>

\* the steps of one invocation, in the order of the code: the prompt is
\* built before the try block; inside it come the call and, for
\* process_incoming_message, the parse; the except branch returns the fallback
InvocationSteps(operation, client, b) ==
    IF PromptRaises(operation, client) THEN <<"build_prompt">>
    ELSE IF GenerationFails(b) THEN <<"build_prompt", "create", "fallback">>
    ELSE IF operation = "process_incoming_message"
    THEN <<"build_prompt", "create", "parse", "return">>
    ELSE <<"build_prompt", "create", "return">>

\* how many times a step was made
Occurrences(steps, step) == Cardinality({i \in 1..Len(steps) : steps[i] = step})

\* the dict process_incoming_message returns from its except branch
ProcessingFallback ==
    [action |-> "respond",
     message |-> "Thank you for your message. I'll have someone from our team contact you shortly.",
     confidence |-> "0.5"]

\* ProcessingSuccess, had an action outside the known ones been replaced by
\* "respond"
ProcessingSuccessValidated(b) ==
    LET pair == _parse_processing_response(GeneratedText(b))
    IN  [action |-> IF pair[1] \in {"respond", "schedule_call", "convert", "lost"}
                    THEN pair[1]
                    ELSE "respond",
         message |-> pair[2],
         confidence |-> "0.8"]

\* the dict process_incoming_message returns from its try block
ProcessingSuccess(b) ==
    LET pair == _parse_processing_response(GeneratedText(b))
    IN  [action |-> pair[1], message |-> pair[2], confidence |-> "0.8"]

generate_initial_message(lead, campaign, client, b) ==
    IF SettingsIsNone(client) THEN AttributeError("generate_initial_message")
    ELSE IF GenerationFails(b) THEN _get_fallback_message(lead, client)
    ELSE GeneratedText(b)

generate_follow_up_message(lead, campaign, client, history, b) ==
    IF GenerationFails(b) THEN _get_fallback_follow_up(lead, client)
    ELSE GeneratedText(b)

\* process_incoming_message, had only a raising call reached the except
\* branch and a response without text been read as empty text
process_incoming_message_unread(msg, lead, campaign, client, history, b) ==
    IF b.raised THEN ProcessingFallback
    ELSE IF GenerationFails(b)
    THEN [action |-> DefaultAction, message |-> DefaultMessage, confidence |-> "0.8"]
    ELSE ProcessingSuccess(b)

process_incoming_message(msg, lead, campaign, client, history, b) ==
    IF SettingsIsNone(client) THEN AttributeError("process_incoming_message")
    ELSE IF GenerationFails(b) THEN ProcessingFallback
    ELSE ProcessingSuccess(b)

(***************************************************************************)
(* The inputs of one invocation.  Lead.name and Client.name are strs where *)
(* present (database.py: nullable=False); a dict built without the key has *)
(* no name.  A turn of the history is a Conversation row: direction and    *)
(* content are both set (nullable=False).  Client.settings is nullable     *)
(* (database.py, and Optional in schemas/client.py): it can hold None.     *)
(***************************************************************************)
Leads ==
    { EmptyDict,
      [name |-> "Sam"],
      [name |-> "Sam", status |-> "responded", phone |-> "5551234567"],
      [status |-> "new", email |-> "lee@example.com"] }

Campaigns ==
    { EmptyDict,
      [name |-> "Spring", description |-> "SEO audit",
       message_templates |-> "{'welcome': 'Hi {name}'}"] }

Clients ==
    { EmptyDict,
      [name |-> "Acme"],
      [name |-> "Acme", settings |-> [industry |-> "retail", services |-> "['SEO']"]],
      [name |-> "Acme", settings |-> None] }

InboundMessages == { "How much is it?", "" }

\* turn i of a history says "m<i>"
TurnContent(i) == "m" \o ToString(i)

\* who spoke when: the agent alone (follow-ups without an answer), or the
\* lead and the agent in turn, either of them first
HistoryShapes == { "agent_only", "lead_first", "agent_first" }

DirectionAt(shape, i) ==
    IF shape = "agent_only" THEN "outbound"
    ELSE IF (shape = "lead_first") = (i % 2 = 1) THEN "inbound"
    ELSE "outbound"

Histories ==
    { [i \in 1..n |-> [direction |-> DirectionAt(shape, i), content |-> TurnContent(i)]] :
      shape \in HistoryShapes, n \in 0..MaxHistory }

BackendTexts ==
    { "ACTION: convert\nMESSAGE: Great, let's proceed!",
      "  ACTION: lost\nnote\nMESSAGE: Sorry to hear that. \n",
      " Sure, happy to help! ",
      "ACTION: call_back_later\nMESSAGE:  ",
      "" }

BackendOutcomes ==
    { Raises, ResponseOf(<<>>), ResponseOf(<<NullChoice>>) }
    \cup { ResponseOf(<<TextChoice(t)>>) : t \in BackendTexts }

AgentIdle ==
    /\ lead_data = EmptyDict
    /\ campaign_data = EmptyDict
    /\ client_data = EmptyDict
    /\ conversation_history = <<>>
    /\ message = ""
    /\ agent_pc = "idle"
    /\ agent_ret = ""
    /\ prompt = ""
    /\ backend = Raises
    /\ backend_calls = 0
    /\ parser_runs = 0
    /\ agent_trace = <<>>

AgentInit ==
    /\ lead_data \in Leads
    /\ campaign_data \in Campaigns
    /\ client_data \in Clients
    /\ conversation_history \in Histories
    /\ message \in InboundMessages
    /\ agent_pc = "idle"
    /\ agent_ret = ""
    /\ prompt = ""
    /\ backend = Raises
    /\ backend_calls = 0
    /\ parser_runs = 0
    /\ agent_trace = <<>>

agentArgs == <<lead_data, campaign_data, client_data, conversation_history, message>>

GenerateInitialMessage ==
    /\ agent_pc = "idle"
    /\ \E b \in BackendOutcomes :
         LET steps == InvocationSteps("generate_initial_message", client_data, b)
             called == Occurrences(steps, "create") > 0
         IN  /\ prompt' = IF PromptRaises("generate_initial_message", client_data)
                          THEN prompt
                          ELSE _build_initial_prompt(lead_data, campaign_data, client_data)
             /\ backend' = IF called THEN b ELSE backend
             /\ backend_calls' = backend_calls + Occurrences(steps, "create")
             /\ parser_runs' = parser_runs + Occurrences(steps, "parse")
             /\ agent_trace' = steps
             /\ agent_ret' = generate_initial_message(lead_data, campaign_data, client_data, b)
    /\ agent_pc' = IF PromptRaises("generate_initial_message", client_data)
                   THEN "raised"
                   ELSE "generate_initial_message"
    /\ UNCHANGED agentArgs

GenerateFollowUpMessage ==
    /\ agent_pc = "idle"
    /\ \E b \in BackendOutcomes :
         LET steps == InvocationSteps("generate_follow_up_message", client_data, b)
             called == Occurrences(steps, "create") > 0
         IN  /\ prompt' = IF PromptRaises("generate_follow_up_message", client_data)
                          THEN prompt
                          ELSE _build_follow_up_prompt(lead_data, campaign_data,
                                                       client_data, conversation_history)
             /\ backend' = IF called THEN b ELSE backend
             /\ backend_calls' = backend_calls + Occurrences(steps, "create")
             /\ parser_runs' = parser_runs + Occurrences(steps, "parse")
             /\ agent_trace' = steps
             /\ agent_ret' = generate_follow_up_message(lead_data, campaign_data, client_data,
                                                        conversation_history, b)
    /\ agent_pc' = IF PromptRaises("generate_follow_up_message", client_data)
                   THEN "raised"
                   ELSE "generate_follow_up_message"
    /\ UNCHANGED agentArgs

ProcessIncomingMessage ==
    /\ agent_pc = "idle"
    /\ \E b \in BackendOutcomes :
         LET steps == InvocationSteps("process_incoming_message", client_data, b)
             called == Occurrences(steps, "create") > 0
         IN  /\ prompt' = IF PromptRaises("process_incoming_message", client_data)
                          THEN prompt
                          ELSE _build_processing_prompt(message, lead_data, campaign_data,
                                                        client_data, conversation_history)
             /\ backend' = IF called THEN b ELSE backend
             /\ backend_calls' = backend_calls + Occurrences(steps, "create")
             /\ parser_runs' = parser_runs + Occurrences(steps, "parse")
             /\ agent_trace' = steps
             /\ agent_ret' = process_incoming_message(message, lead_data, campaign_data,
                                                      client_data, conversation_history, b)
    /\ agent_pc' = IF PromptRaises("process_incoming_message", client_data)
                   THEN "raised"
                   ELSE "process_incoming_message"
    /\ UNCHANGED agentArgs

(***************************************************************************)
(* WhatsAppService                                                         *)
(***************************************************************************)
Digits == {"0", "1", "2", "3", "4", "5", "6", "7", "8", "9"}

RECURSIVE FilterDigits(_)
\* ''.join(filter(str.isdigit, phone_number))
FilterDigits(s) ==
    IF Len(s) = 0 THEN ""
    ELSE (IF SubSeq(s, 1, 1) \in Digits THEN SubSeq(s, 1, 1) ELSE "")
         \o FilterDigits(SubSeq(s, 2, Len(s)))

\* _format_phone_number, had "1" been prefixed to every number of 10 digits
\* or more
_format_phone_number_long_numbers(phone_number) ==
    LET cleaned == FilterDigits(phone_number)
    IN  IF Len(cleaned) >= 10 THEN "1" \o cleaned ELSE cleaned

\* _format_phone_number, had the length of the number not been looked at
_format_phone_number_any_length(phone_number) ==
    LET cleaned == FilterDigits(phone_number)
    IN  IF ~StartsWith(cleaned, "1") THEN "1" \o cleaned ELSE cleaned

_format_phone_number(phone_number) ==
    LET cleaned == FilterDigits(phone_number)
    IN  IF ~StartsWith(cleaned, "1") /\ Len(cleaned) = 10
        THEN "1" \o cleaned
        ELSE cleaned

\* what client.messages.create is asked for; seq numbers the provider's calls
ProviderRequest(to_number, body, seq, accepted) ==
    [seq |-> seq,
     to |-> "whatsapp:" \o _format_phone_number(to_number),
     body |-> body,
     accepted |-> accepted]

\* send_message, had a failure of the provider been answered with a result
\* of status "failed" instead of being raised again
send_message_masked(to_number, body, metadata, seq, accepted) ==
    [raised |-> FALSE,
     value |-> [message_sid |-> IF accepted THEN "SM" \o ToString(seq) ELSE "",
                status |-> IF accepted THEN "queued" ELSE "failed",
                to_number |-> _format_phone_number(to_number),
                sent_at |-> seq,
                metadata |-> metadata]]

\* send_message: the dict it returns when the provider accepts the message
\* (the sid is the provider's, sent_at the time of the call), or the
\* TwilioException it re-raises
send_message(to_number, body, metadata, seq, accepted) ==
    IF accepted
    THEN [raised |-> FALSE,
          value |-> [message_sid |-> "SM" \o ToString(seq),
                     status |-> "queued",
                     to_number |-> _format_phone_number(to_number),
                     sent_at |-> seq,
                     metadata |-> metadata]]
    ELSE [raised |-> TRUE, error |-> "TwilioException"]

\* BulkEntry, had the except branch marked its entry as a success too
BulkEntrySuccessInExcept(message_data, sent) ==
    IF sent.raised
    THEN [success |-> TRUE, error |-> sent.error, original_data |-> message_data]
    ELSE [success |-> TRUE, data |-> sent.value, original_data |-> message_data]

\* the entry one iteration of send_bulk_messages appends for message_data,
\* given what send_message did
BulkEntry(message_data, sent) ==
    IF sent.raised
    THEN [success |-> FALSE, error |-> sent.error, original_data |-> message_data]
    ELSE [success |-> TRUE, data |-> sent.value, original_data |-> message_data]

\* message_data["to_number"] or message_data["message"] raises KeyError
\* before send_message is called
MissingKey(message_data) ==
    IF "to_number" \notin DOMAIN message_data THEN "'to_number'"
    ELSE IF "message" \notin DOMAIN message_data THEN "'message'"
    ELSE ""

BulkMessageOptions ==
    { [to_number |-> "(555) 123-4567", message |-> "Hi Sam!"],
      [to_number |-> "15550001111", message |-> "Hello",
       metadata |-> [campaign |-> "Spring"]],
      [message |-> "no recipient"],
      [to_number |-> "555-000-2222"] }

BulkInputs == UNION { [1..n -> BulkMessageOptions] : n \in 0..MaxBulk }

BulkIdle ==
    /\ messages = <<>>
    /\ bulk_i = 0
    /\ results = <<>>
    /\ bulk_pc = "returned"
    /\ provider_log = <<>>

BulkInit ==
    /\ messages \in BulkInputs
    /\ bulk_i = 0
    /\ results = <<>>
    /\ bulk_pc = "loop"
    /\ provider_log = <<>>

\* SendBulkIteration, had a send the provider failed been made a second time
\* before the entry is appended
SendBulkIterationWithRetry ==
    /\ bulk_pc = "loop"
    /\ bulk_i < Len(messages)
    /\ LET message_data == messages[bulk_i + 1]
           seq == Len(provider_log) + 1
       IN  IF MissingKey(message_data) # ""
           THEN /\ results' = Append(results,
                       BulkEntry(message_data,
                                 [raised |-> TRUE, error |-> MissingKey(message_data)]))
                /\ bulk_i' = bulk_i + 1
                /\ UNCHANGED provider_log
           ELSE \E accepted \in BOOLEAN, again \in BOOLEAN :
                  LET md == Get(message_data, "metadata", EmptyDict)
                      asked(n, ok) ==
                          [index |-> bulk_i + 1,
                           request |-> ProviderRequest(message_data["to_number"],
                                          message_data["message"], n, ok)]
                      sent == send_message(message_data["to_number"],
                                           message_data["message"], md,
                                           IF accepted THEN seq ELSE seq + 1,
                                           accepted \/ again)
                  IN  /\ provider_log' =
                             IF accepted
                             THEN Append(provider_log, asked(seq, TRUE))
                             ELSE provider_log \o <<asked(seq, FALSE), asked(seq + 1, again)>>
                      /\ results' = Append(results, BulkEntry(message_data, sent))
                      /\ bulk_i' = bulk_i + 1
    /\ UNCHANGED <<messages, bulk_pc>>

\* one iteration of "for message_data in messages"
SendBulkIteration ==
    /\ bulk_pc = "loop"
    /\ bulk_i < Len(messages)
    /\ LET message_data == messages[bulk_i + 1]
           seq == Len(provider_log) + 1
       IN  IF MissingKey(message_data) # ""
           THEN /\ results' = Append(results,
                       BulkEntry(message_data,
                                 [raised |-> TRUE, error |-> MissingKey(message_data)]))
                /\ bulk_i' = bulk_i + 1
                /\ UNCHANGED provider_log
           ELSE \E accepted \in BOOLEAN :
                  LET md == Get(message_data, "metadata", EmptyDict)
                      sent == send_message(message_data["to_number"],
                                           message_data["message"], md, seq, accepted)
                  IN  /\ provider_log' = Append(provider_log,
                             [index |-> bulk_i + 1,
                              request |-> ProviderRequest(message_data["to_number"],
                                             message_data["message"], seq, accepted)])
                      /\ results' = Append(results, BulkEntry(message_data, sent))
                      /\ bulk_i' = bulk_i + 1
    /\ UNCHANGED <<messages, bulk_pc>>

\* "return results"
SendBulkReturn ==
    /\ bulk_pc = "loop"
    /\ bulk_i = Len(messages)
    /\ bulk_pc' = "returned"
    /\ UNCHANGED <<messages, bulk_i, results, provider_log>>

(***************************************************************************)
(* WhatsAppService.send_message and send_template_message: one call.       *)
(***************************************************************************)
\* a literal piece of a template
Lit(s) == [lit |-> s]

\* a replacement field {key} of a template
Field(key) == [field |-> key]

\* the templates dict of _build_template_message
templates ==
    [welcome |-> <<Lit("Hi "), Field("name"), Lit("! Welcome to "),
                   Field("company"), Lit(". Thanks for your interest in "),
                   Field("service"), Lit(".")>>,
     follow_up |-> <<Lit("Hi "), Field("name"),
                     Lit("! Just following up on our conversation about "),
                     Field("service"), Lit(". Are you still interested?")>>,
     appointment |-> <<Lit("Hi "), Field("name"),
                       Lit("! Your appointment with "), Field("company"),
                       Lit(" is confirmed for "), Field("date"), Lit(" at "),
                       Field("time"), Lit(".")>>,
     reminder |-> <<Lit("Hi "), Field("name"),
                    Lit("! Don't forget about your upcoming "),
                    Field("service"), Lit(" consultation.")>>,
     thank_you |-> <<Lit("Hi "), Field("name"), Lit("! Thank you for choosing "),
                     Field("company"), Lit(". We appreciate your business!")>>]

\* templates.get(template_name, "Hi {name}! Thank you for your interest.")
TemplateOf(template_name) ==
    IF template_name \in DOMAIN templates
    THEN templates[template_name]
    ELSE <<Lit("Hi "), Field("name"), Lit("! Thank you for your interest.")>>

\* the replacement fields of a template
FieldsOf(template) ==
    {template[i].field : i \in {j \in 1..Len(template) : "field" \in DOMAIN template[j]}}

RECURSIVE Filled(_, _)
\* the pieces of a template, each field replaced by its variable
Filled(template, variables) ==
    IF template = <<>> THEN ""
    ELSE LET piece == Head(template)
         IN  (IF "field" \in DOMAIN piece THEN variables[piece.field] ELSE piece.lit)
             \o Filled(Tail(template), variables)

\* template.format(**variables): KeyError when a field has no variable
Format(template, variables) ==
    IF FieldsOf(template) \subseteq DOMAIN variables
    THEN [raised |-> FALSE, value |-> Filled(template, variables)]
    ELSE [raised |-> TRUE, error |-> "KeyError"]

\* the variables of the second format call, made after a KeyError
TemplateDefaults ==
    [name |-> "there", company |-> "our company", service |-> "our services"]

\* WhatsAppService._build_template_message: the text, or the KeyError the
\* second format call raises
_build_template_message(template_name, variables) ==
    LET template == TemplateOf(template_name)
        first == Format(template, variables)
    IN  IF ~first.raised THEN first ELSE Format(template, TemplateDefaults)

\* no call was made to client.messages.create
NoRequest == [seq |-> 0, to |-> "", body |-> "", accepted |-> FALSE]

\* WhatsAppService.send_template_message: the dict it returns, or the error
\* that leaves it (the KeyError of the body, or the TwilioException raised again)
send_template_message(to_number, template_name, template_variables, metadata, seq, accepted) ==
    LET body == _build_template_message(template_name, template_variables)
    IN  IF body.raised
        THEN [raised |-> TRUE, error |-> body.error]
        ELSE IF accepted
        THEN [raised |-> FALSE,
              value |-> [message_sid |-> "SM" \o ToString(seq),
                         status |-> "queued",
                         template_name |-> template_name,
                         template_variables |-> template_variables,
                         sent_at |-> seq,
                         metadata |-> metadata]]
        ELSE [raised |-> TRUE, error |-> "TwilioException"]

\* the request send_template_message hands to client.messages.create
TemplateRequest(to_number, template_name, template_variables, seq, accepted) ==
    LET body == _build_template_message(template_name, template_variables)
    IN  IF body.raised THEN NoRequest
        ELSE ProviderRequest(to_number, body.value, seq, accepted)

\* the recipients given to a send: punctuated, bare, short and long numbers
PhoneCountryCodes == {"", "+", "1", "+1 ", "44"}

PhoneNationalNumbers ==
    {"", "5551234567", "(555) 123-4567", "1555123456", "555-1234",
     "155512345", "55512345678", "call me"}

PhoneNumbers == {cc \o n : cc \in PhoneCountryCodes, n \in PhoneNationalNumbers}

\* the message texts given to send_message
SendBodies == {"Hi Sam!", ""}

\* the template names given to send_template_message
TemplateNames == {"welcome", "appointment", "reminder", "newsletter"}

\* the template variables given to send_template_message
TemplateVariables ==
    {EmptyDict,
     [name |-> "Sam"],
     [name |-> "Sam", company |-> "Acme", service |-> "roofing"],
     [name |-> "Sam", company |-> "Acme", date |-> "May 2", time |-> "10:00"]}

\* nothing was returned or raised yet
NotSent == [raised |-> FALSE, value |-> EmptyDict]

SendIdle ==
    /\ send_to_number = ""
    /\ send_pc = "idle"
    /\ send_ret = NotSent
    /\ send_request = NoRequest
    /\ formatted = <<>>

SendInit ==
    /\ send_to_number \in PhoneNumbers
    /\ send_pc = "idle"
    /\ send_ret = NotSent
    /\ send_request = NoRequest
    /\ formatted = <<>>

\* one call of send_message; the provider accepts the message or fails
SendMessage ==
    /\ send_pc = "idle"
    /\ \E body \in SendBodies, accepted \in BOOLEAN :
         /\ send_request' = ProviderRequest(send_to_number, body, 1, accepted)
         /\ send_ret' = send_message(send_to_number, body, EmptyDict, 1, accepted)
    /\ send_pc' = "send_message"
    /\ UNCHANGED <<send_to_number, formatted>>

\* one call of send_template_message
SendTemplateMessage ==
    /\ send_pc = "idle"
    /\ \E template_name \in TemplateNames, template_variables \in TemplateVariables,
          accepted \in BOOLEAN :
         /\ send_request' = TemplateRequest(send_to_number, template_name,
                                            template_variables, 1, accepted)
         /\ send_ret' = send_template_message(send_to_number, template_name,
                                              template_variables, EmptyDict, 1,
                                              accepted)
    /\ send_pc' = "send_template_message"
    /\ UNCHANGED <<send_to_number, formatted>>

\* _format_phone_number applied to the number, then to its own output
FormatPhoneNumber ==
    /\ Len(formatted) < MaxFormat
    /\ formatted' = Append(formatted,
                           _format_phone_number(IF formatted = <<>>
                                                THEN send_to_number
                                                ELSE formatted[Len(formatted)]))
    /\ UNCHANGED <<send_to_number, send_pc, send_ret, send_request>>

(***************************************************************************)
(* The Lead record.  database.py declares the status column and its        *)
(* default; the transitions are those of the Lead State Machine, driven by *)
(* what send_message and process_incoming_message return.                  *)
(***************************************************************************)
\* Column(String(50), default="new")  # new, contacted, responded, converted, lost
LeadStatusDefault == "new"

LeadStatuses == {"new", "contacted", "responded", "converted", "lost"}

\* an action of process_incoming_message that converts the lead
ConversionActions == {"convert"}

\* an action of process_incoming_message that ends the conversation
DisengageActions == {"lost"}

\* an outgoing message was dispatched by the gateway
OnDispatched(status) == IF status = "new" THEN "contacted" ELSE status

\* OnInbound, had a lead not yet contacted been moved as well
OnInboundBeforeContact(status) ==
    IF status \in {"new", "contacted"} THEN "responded" ELSE status

\* an inbound message was received from the lead
OnInbound(status) == IF status = "contacted" THEN "responded" ELSE status

\* OnDecision, had the action been applied whatever the status
OnDecisionAnyStatus(status, action) ==
    IF action \in ConversionActions THEN "converted"
    ELSE IF action \in DisengageActions THEN "lost"
    ELSE status

\* the action of a DecisionResult is applied
OnDecision(status, action) ==
    IF status # "responded" THEN status
    ELSE IF action \in ConversionActions THEN "converted"
    ELSE IF action \in DisengageActions THEN "lost"
    ELSE status

NoDecision == [action |-> "", message |-> "", confidence |-> ""]

LeadIdle ==
    /\ lead_status = LeadStatusDefault
    /\ lead_prev = LeadStatusDefault
    /\ lead_event = "created"
    /\ decision = NoDecision
    /\ turns = <<>>

LeadInit == LeadIdle

\* an initial or follow-up message is generated and handed to send_message;
\* the turn is recorded and the lead moves only when the provider accepted it
DispatchOutgoing ==
    /\ decision = NoDecision
    /\ Len(turns) < MaxTurns
    /\ \E b \in BackendOutcomes, accepted \in BOOLEAN :
         LET text == IF Len(turns) = 0
                     THEN generate_initial_message(lead_data, campaign_data,
                                                   client_data, b)
                     ELSE generate_follow_up_message(lead_data, campaign_data,
                                                     client_data, <<>>, b)
             sent == send_message("5551234567", text, EmptyDict, Len(turns) + 1, accepted)
         IN  IF sent.raised
             THEN /\ lead_event' = "dispatch_failed"
                  /\ UNCHANGED <<lead_status, turns>>
             ELSE /\ lead_event' = "dispatched"
                  /\ lead_status' = OnDispatched(lead_status)
                  /\ turns' = Append(turns, "outbound")
    /\ lead_prev' = lead_status
    /\ UNCHANGED decision

\* an inbound message arrives and process_incoming_message decides on it
ReceiveInbound ==
    /\ decision = NoDecision
    /\ Len(turns) < MaxTurns
    /\ \E b \in BackendOutcomes :
         decision' = process_incoming_message(message, lead_data, campaign_data,
                                              client_data, <<>>, b)
    /\ lead_status' = OnInbound(lead_status)
    /\ lead_prev' = lead_status
    /\ lead_event' = "inbound"
    /\ turns' = Append(turns, "inbound")

\* the decision's action moves the lead
ApplyDecision ==
    /\ decision # NoDecision
    /\ lead_status' = OnDecision(lead_status, decision.action)
    /\ lead_prev' = lead_status
    /\ lead_event' = "decision:" \o decision.action
    /\ decision' = NoDecision
    /\ UNCHANGED turns

(***************************************************************************)
(* Specifications.                                                         *)
(***************************************************************************)
\* AIAgent: one invocation of one of its three operations
Init == AgentInit /\ ParserIdle /\ BulkIdle /\ SendIdle /\ LeadIdle

Next ==
    \/ GenerateInitialMessage /\ UNCHANGED <<parserVars, bulkVars, sendVars, leadVars>>
    \/ GenerateFollowUpMessage /\ UNCHANGED <<parserVars, bulkVars, sendVars, leadVars>>
    \/ ProcessIncomingMessage /\ UNCHANGED <<parserVars, bulkVars, sendVars, leadVars>>

Spec == Init /\ [][Next]_vars

\* the Response Parser on raw generation outputs
InitParser == AgentIdle /\ ParserInit /\ BulkIdle /\ SendIdle /\ LeadIdle

NextParser == ParseResponse /\ UNCHANGED <<agentVars, bulkVars, sendVars, leadVars>>

SpecParser == InitParser /\ [][NextParser]_vars

\* WhatsAppService.send_bulk_messages
InitBulk == AgentIdle /\ ParserIdle /\ BulkInit /\ SendIdle /\ LeadIdle

NextBulk ==
    \/ SendBulkIteration /\ UNCHANGED <<agentVars, parserVars, sendVars, leadVars>>
    \/ SendBulkReturn /\ UNCHANGED <<agentVars, parserVars, sendVars, leadVars>>

SpecBulk == InitBulk /\ [][NextBulk]_vars

\* one lead through its events
InitLead == AgentIdle /\ ParserIdle /\ BulkIdle /\ SendIdle /\ LeadInit

NextLead ==
    \/ DispatchOutgoing /\ UNCHANGED <<agentVars, parserVars, bulkVars, sendVars>>
    \/ ReceiveInbound /\ UNCHANGED <<agentVars, parserVars, bulkVars, sendVars>>
    \/ ApplyDecision /\ UNCHANGED <<agentVars, parserVars, bulkVars, sendVars>>

SpecLead == InitLead /\ [][NextLead]_vars

\* WhatsAppService: one send to one number, and the normalisation of that number
InitSend == AgentIdle /\ ParserIdle /\ BulkIdle /\ SendInit /\ LeadIdle

NextSend ==
    \/ SendMessage /\ UNCHANGED <<agentVars, parserVars, bulkVars, leadVars>>
    \/ SendTemplateMessage /\ UNCHANGED <<agentVars, parserVars, bulkVars, leadVars>>
    \/ FormatPhoneNumber /\ UNCHANGED <<agentVars, parserVars, bulkVars, leadVars>>

SpecSend == InitSend /\ [][NextSend]_vars

(***************************************************************************)
(* Properties.                                                             *)
(***************************************************************************)
\* the generation step of the last invocation failed: the call raised, or
\* the response carries no choice or no text to read
GenerationFailed ==
    \/ backend.raised
    \/ Len(backend.choices) = 0
    \/ ~backend.choices[1].content_is_str

\* sub occurs in s
Contains(s, sub) ==
    \E i \in 1..(Len(s) - Len(sub) + 1) : SubSeq(s, i, i + Len(sub) - 1) = sub

\* C1: whenever the generation step of process_incoming_message fails, the
\* operation returns exactly action "respond", confidence 0.5 and the fixed
\* handoff message, whatever the inbound message, lead, campaign, client and
\* history are.
C1_ProcessingFallbackIsFixed ==
    (agent_pc = "process_incoming_message" /\ GenerationFailed)
    => agent_ret =
         [action |-> "respond",
          message |-> "Thank you for your message. I'll have someone from our team contact you shortly.",
          confidence |-> "0.5"]

\* a failed processing call (a response with no text) for a named lead with
\* a history and a non-empty inbound message
C1_Witness ==
    /\ agent_pc = "process_incoming_message"
    /\ GenerationFailed
    /\ ~backend.raised
    /\ "name" \in DOMAIN lead_data
    /\ Len(conversation_history) > 0
    /\ message # ""
    /\ agent_ret.confidence = "0.5"

\* C2: whenever the generation step of generate_initial_message fails, the
\* operation returns "Hi {name}! Thanks for your interest in {company}. I'd
\* love to tell you more about our services. When would be a good time to
\* chat?" with {name} the lead's name or "there", {company} the client's name
\* or "our company"; nothing else of the inputs shows in it.
C2_InitialFallbackText ==
    (agent_pc = "generate_initial_message" /\ GenerationFailed)
    => agent_ret =
         "Hi "
         \o (IF "name" \in DOMAIN lead_data THEN lead_data["name"] ELSE "there")
         \o "! Thanks for your interest in "
         \o (IF "name" \in DOMAIN client_data THEN client_data["name"] ELSE "our company")
         \o ". I'd love to tell you more about our services. When would be a good time to chat?"

\* a failed initial generation for a lead without a name, a client with one
\* and a campaign with fields of its own
C2_Witness ==
    /\ agent_pc = "generate_initial_message"
    /\ GenerationFailed
    /\ "name" \notin DOMAIN lead_data
    /\ "status" \in DOMAIN lead_data
    /\ "name" \in DOMAIN client_data
    /\ campaign_data # EmptyDict
    /\ agent_ret = "Hi there! Thanks for your interest in Acme. I'd love to tell you more about our services. When would be a good time to chat?"

\* C3: whenever the generation step of generate_follow_up_message fails, the
\* operation returns "Hi {name}! Just following up on our previous
\* conversation. Would you like to learn more about our services?" with
\* {name} the lead's name or "there", whatever the history, campaign and
\* client are.
C3_FollowUpFallbackText ==
    (agent_pc = "generate_follow_up_message" /\ GenerationFailed)
    => agent_ret =
         "Hi "
         \o (IF "name" \in DOMAIN lead_data THEN lead_data["name"] ELSE "there")
         \o "! Just following up on our previous conversation. Would you like to learn more about our services?"

\* a failed follow-up generation (the call raised) for a named lead with a
\* history and a named client
C3_Witness ==
    /\ agent_pc = "generate_follow_up_message"
    /\ backend.raised
    /\ "name" \in DOMAIN lead_data
    /\ "name" \in DOMAIN client_data
    /\ Len(conversation_history) > 0
    /\ agent_ret = "Hi Sam! Just following up on our previous conversation. Would you like to learn more about our services?"

\* the positions of the lines of the raw output that start with prefix
LinesWith(prefix) ==
    { i \in 1..Len(response_lines) : StartsWith(response_lines[i], prefix) }

\* the last position in a non-empty set of positions
Last(S) == CHOOSE i \in S : \A j \in S : j <= i

\* C4: when the generation output has lines starting with "ACTION:"
\* (respectively "MESSAGE:"), the returned action (respectively message) is
\* the one set by the last such line in line order, and neither kind of line
\* changes the other's result, however the two kinds are interleaved.
C4_LastLineWins ==
    parsed # NotRun =>
      /\ LinesWith("ACTION:") # {}
           => parsed[1] = ActionValue(response_lines[Last(LinesWith("ACTION:"))])
      /\ LinesWith("MESSAGE:") # {}
           => parsed[2] = MessageValue(response_lines[Last(LinesWith("MESSAGE:"))])

\* two ACTION: lines that set different values with a MESSAGE: line between
\* them, and the later one is the action returned
C4_Witness ==
    /\ parsed # NotRun
    /\ Len(response_lines) = 3
    /\ StartsWith(response_lines[1], "ACTION:")
    /\ StartsWith(response_lines[2], "MESSAGE:")
    /\ StartsWith(response_lines[3], "ACTION:")
    /\ ActionValue(response_lines[1]) # ActionValue(response_lines[3])
    /\ parsed[1] = "convert"
    /\ parsed[2] # DefaultMessage

\* the rest of a line after a leading prefix, trimmed
TrimmedRemainder(line, prefix) == Strip(SubSeq(line, Len(prefix) + 1, Len(line)))

\* C5: for every line that starts with "ACTION:" (or "MESSAGE:"), the value
\* it sets is exactly the remainder of the line after the leading prefix,
\* trimmed, whatever the remainder contains.
C5_ValueIsTrimmedRemainder ==
    parsed # NotRun =>
      /\ LinesWith("ACTION:") # {}
           => parsed[1] = TrimmedRemainder(
                  response_lines[Last(LinesWith("ACTION:"))], "ACTION:")
      /\ LinesWith("MESSAGE:") # {}
           => parsed[2] = TrimmedRemainder(
                  response_lines[Last(LinesWith("MESSAGE:"))], "MESSAGE:")

\* C6, as claimed: the parser returns a pair, with action "respond" when no
\* line starts with "ACTION:" and the default message when no line starts
\* with "MESSAGE:".
C6_DefaultsOnRawLines ==
    parsed # NotRun =>
      /\ Len(parsed) = 2
      /\ LinesWith("ACTION:") = {} => parsed[1] = "respond"
      /\ LinesWith("MESSAGE:") = {}
           => parsed[2] = "Thank you for your message. I'll be happy to help you."

\* the positions of the lines that are not blank
NonBlank == { i \in 1..Len(response_lines) : Strip(response_lines[i]) # "" }

\* line i as it stands once the whole text is trimmed: the first line that
\* is not blank loses its indentation
TrimmedLine(i) ==
    IF NonBlank # {} /\ i = (CHOOSE f \in NonBlank : \A j \in NonBlank : f <= j)
    THEN LStrip(response_lines[i])
    ELSE response_lines[i]

\* the positions of the lines of the trimmed text that start with prefix
TrimmedLinesWith(prefix) ==
    { i \in 1..Len(response_lines) : StartsWith(TrimmedLine(i), prefix) }

\* the lines of the trimmed text that start with one of the two prefixes,
\* in line order
PrefixedLines ==
    LET keep(i) == i \in TrimmedLinesWith("ACTION:") \cup TrimmedLinesWith("MESSAGE:")
        F[i \in 0..Len(response_lines)] ==
            IF i = 0 THEN <<>>
            ELSE IF keep(i) THEN Append(F[i - 1], TrimmedLine(i)) ELSE F[i - 1]
    IN  F[Len(response_lines)]

\* C6, amended: the parser returns a pair for every input text, with action
\* "respond" when no line of the trimmed text starts with "ACTION:" and the
\* default message when none starts with "MESSAGE:"; the lines of the
\* trimmed text that start with neither prefix change nothing (the result is
\* that of the prefixed lines alone).
C6_DefaultsOnTrimmedLines ==
    parsed # NotRun =>
      /\ Len(parsed) = 2
      /\ TrimmedLinesWith("ACTION:") = {} => parsed[1] = "respond"
      /\ TrimmedLinesWith("MESSAGE:") = {}
           => parsed[2] = "Thank you for your message. I'll be happy to help you."
      /\ parsed = _parse_processing_response(Join(PrefixedLines, "\n"))

\* an indented ACTION: line and a lower-case one after a first line that is
\* not blank: neither sets the action, and the MESSAGE: line sets the message
C6_Witness ==
    /\ parsed # NotRun
    /\ response_lines = <<"MESSAGE: Great, let's proceed!",
                          "  ACTION: schedule_call", "action: convert">>
    /\ parsed = <<"respond", "Great, let's proceed!">>

\* the turns a prompt has to show for the history of the invocation: the
\* last min(n, 5), oldest first, each as "<direction>: <content>"
ExpectedHistoryLines ==
    LET n == Len(conversation_history)
        k == IF n < 5 THEN n ELSE 5
    IN  [j \in 1..k |->
            conversation_history[n - k + j]["direction"] \o ": "
            \o conversation_history[n - k + j]["content"]]

\* the header that follows the history section in the prompt of the
\* operation that has returned
SectionAfterHistory ==
    IF agent_pc = "generate_follow_up_message" THEN "Campaign Information:"
    ELSE "Client Information:"

\* C7: for every history of length n, the follow-up prompt and the
\* processing prompt render exactly the last min(n, 5) turns, each as
\* "<direction>: <content>", oldest of the kept turns first; no older turn
\* appears, and no kept turn is dropped or reordered.
C7_PromptShowsLastFiveTurns ==
    agent_pc \in {"generate_follow_up_message", "process_incoming_message"} =>
      /\ Contains(prompt,
                  "Conversation History:\n        "
                  \o Join(ExpectedHistoryLines, "\n")
                  \o "\n        \n        " \o SectionAfterHistory)
      /\ \A i \in 1..(Len(conversation_history) - 5) :
           ~Contains(prompt, ": " \o conversation_history[i]["content"] \o "\n")

\* a processing prompt built from a history of more than five turns, whose
\* first turn is left out and whose last turn is shown
C7_Witness ==
    /\ agent_pc = "process_incoming_message"
    /\ Len(conversation_history) > 5
    /\ ~Contains(prompt, ": m1\n")
    /\ Contains(prompt, ": m2\n")
    /\ Contains(prompt, ": m" \o ToString(Len(conversation_history)) \o "\n")

\* the provider was asked to send input message i
Attempted(i) == \E j \in 1..Len(provider_log) : provider_log[j].index = i

\* the provider accepted input message i
Accepted(i) ==
    \E j \in 1..Len(provider_log) :
        provider_log[j].index = i /\ provider_log[j].request.accepted

\* C8: send_bulk_messages over N messages returns N entries in input order;
\* entry i refers to input message i and is marked success exactly when the
\* send of message i succeeded; a failure does not abort the batch: every
\* message that has a recipient and a text is handed to the provider.
C8_BulkReportsEveryMessage ==
    bulk_pc = "returned" =>
      /\ Len(results) = Len(messages)
      /\ \A i \in 1..Len(messages) :
           /\ results[i].original_data = messages[i]
           /\ results[i].success = Accepted(i)
           /\ {"to_number", "message"} \subseteq DOMAIN messages[i] => Attempted(i)

\* a batch of three in which the first send fails at the provider, the
\* second has no recipient and the third succeeds
C8_Witness ==
    /\ bulk_pc = "returned"
    /\ Len(messages) = 3
    /\ Attempted(1) /\ ~Accepted(1) /\ ~results[1].success
    /\ ~Attempted(2) /\ ~results[2].success
    /\ Accepted(3) /\ results[3].success

\* C9: a lead whose status is converted or lost never changes status again,
\* whatever inbound messages, decisions and dispatches follow.
C9_TerminalStatusesStay ==
    [][(lead_status \in {"converted", "lost"}) => (lead_status' = lead_status)]_vars

\* a converted lead for which a later decision to disengage was applied
C9_Witness ==
    /\ lead_status = "converted"
    /\ lead_prev = "converted"
    /\ lead_event = "decision:lost"

\* C10: the status only moves along new -> contacted -> responded ->
\* {converted, lost}: new -> contacted only with a dispatch the gateway
\* accepted, contacted -> responded with every inbound message received in
\* contacted, and there is no other change of status.
C10_StatusFollowsTheEdges ==
    [][/\ lead_status' \in {"new", "contacted", "responded", "converted", "lost"}
       /\ lead_status' # lead_status =>
            \/ lead_status = "new" /\ lead_status' = "contacted"
               /\ lead_event' = "dispatched"
            \/ lead_status = "contacted" /\ lead_status' = "responded"
               /\ lead_event' = "inbound"
            \/ lead_status = "responded" /\ lead_status' \in {"converted", "lost"}
       /\ (lead_status = "contacted" /\ lead_event' = "inbound")
            => lead_status' = "responded"
       /\ (lead_status = "new" /\ lead_event' = "dispatched")
            => lead_status' = "contacted"
      ]_vars

\* a lead that went from responded to lost after a turn that left it in
\* responded
C10_Witness ==
    /\ lead_status = "lost"
    /\ lead_prev = "responded"
    /\ Len(turns) >= 3

\* the provider was asked for the message of the last send and accepted it
AcceptedByProvider == send_request # NoRequest /\ send_request.accepted

\* C11: a send the provider did not accept (it failed, or was never asked)
\* leaves send_message and send_template_message as an error: no result with
\* a message id, a status and a sent_at is returned for it, and no other
\* value stands in for one.
C11_SendFailurePropagates ==
    (send_pc # "idle" /\ ~AcceptedByProvider) => send_ret.raised

\* send_message was called and the provider failed
C11_Witness ==
    /\ send_pc = "send_message"
    /\ send_request # NoRequest
    /\ ~send_request.accepted
    /\ send_ret.raised
    /\ send_ret.error = "TwilioException"

RECURSIVE DigitsOnly(_)
\* the characters "0".."9" of s, in the order s has them
DigitsOnly(s) ==
    IF s = "" THEN ""
    ELSE LET last == SubSeq(s, Len(s), Len(s))
         IN  DigitsOnly(SubSeq(s, 1, Len(s) - 1))
             \o (IF last \in {"0", "1", "2", "3", "4", "5", "6", "7", "8", "9"}
                 THEN last ELSE "")

\* the normalized number as stated: "1" before every number of 10 digits
PrefixedWhenTenDigits(number) ==
    IF Len(DigitsOnly(number)) = 10
    THEN "1" \o DigitsOnly(number)
    ELSE DigitsOnly(number)

\* the normalized number: "1" before a number of 10 digits whose first digit
\* is not "1"
PrefixedWhenTenDigitsWithoutCode(number) ==
    IF Len(DigitsOnly(number)) = 10 /\ SubSeq(DigitsOnly(number), 1, 1) # "1"
    THEN "1" \o DigitsOnly(number)
    ELSE DigitsOnly(number)

\* C12 as stated: the normalized recipient is the digits of the number, in
\* their order, with "1" prefixed to every number of exactly 10 digits; it is
\* what send_message hands to the provider and returns.
C12_EveryTenDigitNumberPrefixed ==
    /\ formatted # <<>> => formatted[1] = PrefixedWhenTenDigits(send_to_number)
    /\ send_pc = "send_message" =>
         send_request.to = "whatsapp:" \o PrefixedWhenTenDigits(send_to_number)

\* C12, amended: the normalized recipient is the digits of the number, in
\* their order, with "1" prefixed to a number of exactly 10 digits that does
\* not already begin with "1"; every other number is left as its digits.  It
\* is what send_message hands to the provider and returns.
C12_TenDigitNumberWithoutCodePrefixed ==
    /\ formatted # <<>> =>
         formatted[1] = PrefixedWhenTenDigitsWithoutCode(send_to_number)
    /\ send_pc = "send_message" =>
         /\ send_request.to =
              "whatsapp:" \o PrefixedWhenTenDigitsWithoutCode(send_to_number)
         /\ ~send_ret.raised =>
              send_ret.value.to_number =
                PrefixedWhenTenDigitsWithoutCode(send_to_number)

\* a punctuated number of 10 digits beginning with "1" was normalized and
\* sent: it went out as its 10 digits
C12_Witness ==
    /\ send_to_number # DigitsOnly(send_to_number)
    /\ Len(DigitsOnly(send_to_number)) = 10
    /\ SubSeq(DigitsOnly(send_to_number), 1, 1) = "1"
    /\ formatted # <<>>
    /\ formatted[1] = DigitsOnly(send_to_number)
    /\ send_pc = "send_message"
    /\ ~send_ret.raised
    /\ send_ret.value.to_number = DigitsOnly(send_to_number)

\* C19: phone normalization is idempotent: _format_phone_number applied to
\* its own output returns that output unchanged, so a number that received
\* the "1" prefix never receives a second one.
C19_NormalizationIsIdempotent ==
    \A i \in 2..Len(formatted) : formatted[i] = formatted[i - 1]

\* a number of 10 digits received the prefix, and normalizing the result
\* again left it as it was
C19_Witness ==
    /\ Len(formatted) >= 2
    /\ Len(DigitsOnly(send_to_number)) = 10
    /\ formatted[1] = "1" \o DigitsOnly(send_to_number)
    /\ formatted[2] = formatted[1]

\* C13: for every outcome of the generation backend (failure, empty text,
\* text without a MESSAGE line, a MESSAGE line with an empty remainder), the
\* message text generate_initial_message, generate_follow_up_message and
\* process_incoming_message return is not empty.
C13_EveryOutcomeYieldsAMessage ==
    /\ agent_pc \in {"generate_initial_message", "generate_follow_up_message"} =>
         agent_ret # ""
    /\ agent_pc = "process_incoming_message" => agent_ret.message # ""

\* C14: every result of process_incoming_message carries a confidence; it is
\* 0.8 exactly when the generation step succeeded, the action and message
\* then being the Response Parser's output on the trimmed generation text
\* with the action passed through as it is, and 0.5 exactly when the
\* generation step failed; no other confidence is returned.
C14_ConfidenceTellsSuccess ==
    agent_pc = "process_incoming_message" =>
        /\ "confidence" \in DOMAIN agent_ret
        /\ agent_ret.confidence \in {"0.8", "0.5"}
        /\ (agent_ret.confidence = "0.5") <=> GenerationFailed
        /\ (agent_ret.confidence = "0.8") <=> ~GenerationFailed
        /\ ~GenerationFailed =>
             <<agent_ret.action, agent_ret.message>>
               = _parse_processing_response(Strip(backend.choices[1].content))

\* the generation succeeded with an action no list names: it is returned as
\* it was written, with confidence 0.8
C14_Witness ==
    /\ agent_pc = "process_incoming_message"
    /\ ~GenerationFailed
    /\ agent_ret.action = "call_back_later"
    /\ agent_ret.confidence = "0.8"

\* every step a of the last invocation came before every step b of it
StepsBefore(a, b) ==
    \A i, j \in 1..Len(agent_trace) :
        (agent_trace[i] = a /\ agent_trace[j] = b) => i < j

\* how many times the last invocation made the step
StepsMade(step) == Cardinality({i \in 1..Len(agent_trace) : agent_trace[i] = step})

LeadNameLine == "- Name: " \o Get(lead_data, "name", "Unknown") \o "\n"

\* C16: for every lead, campaign and client input, each of the three prompt
\* builders (initial, follow-up, processing) returns a string, and the string
\* contains the lead's name, or "Unknown" in its place when the lead has none.
C16_PromptNamesTheLead ==
    agent_pc # "idle" =>
        /\ StepsMade("build_prompt") = 1
        /\ agent_pc # "raised"
        /\ Contains(prompt, LeadNameLine)

\* C17: every turn of the history carrying a direction and a content,
\* generate_initial_message, generate_follow_up_message and
\* process_incoming_message return a value and never propagate an error to the
\* caller, whatever the generation backend does.
C17_OperationsNeverPropagate ==
    /\ \A i \in 1..Len(conversation_history) :
         {"direction", "content"} \subseteq DOMAIN conversation_history[i]
    /\ agent_pc # "raised"

\* the requests made to the provider for input message i
RequestsFor(i) == {j \in 1..Len(provider_log) : provider_log[j].index = i}

\* C18: send_bulk_messages attempts its input messages one after another in
\* input order, each exactly once: a message is attempted only when every
\* message before it has its entry, a failed message is not attempted again,
\* and none is skipped, whichever sends fail; an entry that lacks a recipient
\* or a text is a failed attempt that never reaches the provider.
C18_BulkInOrderOnceEach ==
    /\ bulk_i <= Len(messages)
    /\ Len(results) = bulk_i
    /\ bulk_pc = "returned" => bulk_i = Len(messages)
    /\ \A j \in 1..Len(provider_log) : provider_log[j].index \in 1..bulk_i
    /\ \A j, k \in 1..Len(provider_log) :
         j < k => provider_log[j].index < provider_log[k].index
    /\ \A i \in 1..bulk_i :
         /\ results[i].original_data = messages[i]
         /\ IF {"to_number", "message"} \subseteq DOMAIN messages[i]
            THEN /\ Cardinality(RequestsFor(i)) = 1
                 /\ \A j \in RequestsFor(i) :
                      provider_log[j].request.body = messages[i]["message"]
            ELSE /\ RequestsFor(i) = {}
                 /\ ~results[i].success

\* three messages were gone through: the provider failed the first, which
\* was asked for once only; the second had no text; the third was sent
C18_Witness ==
    /\ bulk_i = 3
    /\ Cardinality(RequestsFor(1)) = 1 /\ ~results[1].success
    /\ "message" \notin DOMAIN messages[2] /\ RequestsFor(2) = {}
    /\ Cardinality(RequestsFor(3)) = 1 /\ results[3].success

====
